---- MODULE Spec2Model ----
(***************************************************************************)
(* BinanceTrade (aioquant/platform/binance.py): the order reconciler       *)
(* (connected_callback, process), the guard around process, the REST       *)
(* operations of the trade object (revoke_order), and the session: the     *)
(* listen key, the stream, the renewal and the heartbeat.                  *)
(***************************************************************************)
EXTENDS Integers, Sequences, FiniteSets, TLC

\* ------------------------------------------------------------------ bounds
MaxOrderId == 2
MaxQty == 1
MaxRows == 2
MaxEvents == 3
MaxArgs == 2
MaxKeys == 2
MaxParams == 2

\* --------------------------------------------------------------- constants
None == "None"

ORDER_STATUS_SUBMITTED == "SUBMITTED"
ORDER_STATUS_PARTIAL_FILLED == "PARTIAL_FILLED"
ORDER_STATUS_FILLED == "FILLED"
ORDER_STATUS_CANCELED == "CANCELED"
ORDER_STATUS_FAILED == "FAILED"

\* kwargs["symbol"] of the instance, as its parts, and the symbol of another
\* instance's market as the exchange writes it.
symbol == <<"BTC", "/", "USDT">>
raw_symbol == SelectSeq(symbol, LAMBDA c : c # "/")
OtherRawSymbol == <<"ETH", "USDT">>

\* kwargs["host"], kwargs["access_key"] and kwargs["secret_key"] of the instance.
host == "https://api.binance.com"
access_key == "ACCESS-KEY"
secret_key == "SECRET-KEY"

\* ---------------------------------------------------------------- inputs
OrderIds == 1..MaxOrderId
ExchangeStatuses ==
    {"NEW", "PARTIALLY_FILLED", "FILLED", "CANCELED", "REJECTED", "EXPIRED",
     "PENDING_CANCEL"}
RestErrors == {"timeout", "rejected"}

\* An execution report carries the original quantity q and the cumulative
\* executed quantity z, 0 <= z <= q.
StreamMessages ==
    { [e |-> "executionReport", s |-> s, i |-> i, X |-> x, q |-> q, z |-> z] :
        s \in {raw_symbol, OtherRawSymbol}, i \in OrderIds,
        x \in ExchangeStatuses, q \in 1..MaxQty, z \in 0..MaxQty }
    \cup { [e |-> "outboundAccountInfo"] }

ValidMessage(m) == m.e = "executionReport" => m.z <= m.q

\* One row of GET /api/v3/openOrders.
SnapshotRows ==
    { [orderId |-> i, status |-> x, origQty |-> q, executedQty |-> z] :
        i \in OrderIds, x \in ExchangeStatuses, q \in 1..MaxQty, z \in 0..MaxQty }

ValidRow(r) == r.executedQty <= r.origQty

\* The exchange lists an order at most once.
DistinctIds(rows) ==
    \A a, b \in 1..Len(rows) : rows[a].orderId = rows[b].orderId => a = b

Snapshots ==
    UNION { { rows \in [1..n -> {r \in SnapshotRows : ValidRow(r)}] : DistinctIds(rows) } :
            n \in 0..MaxRows }

\* The transport returns exactly one of success and error; the absent list of
\* rows is written as the empty one, and is never read.
OpenOrdersResponses ==
    { [success |-> rows, error |-> None] : rows \in Snapshots }
    \cup { [success |-> <<>>, error |-> e] : e \in RestErrors }

\* The listen keys the exchange may issue.
ListenKeys == {"listenKey" \o ToString(n) : n \in 1..MaxKeys}

\* The answer of POST /api/v1/userDataStream; the absent key is never read.
ListenKeyResponses ==
    { [success |-> [listenKey |-> k], error |-> None] : k \in ListenKeys }
    \cup { [success |-> [listenKey |-> None], error |-> e] : e \in RestErrors }

\* The answer of PUT /api/v1/userDataStream, of which nothing is read.
PutResponses == { [error |-> e] : e \in {None} \cup RestErrors }

\* The answer of POST /api/v3/order; the absent order id is never read.
CreateResponses ==
    { [success |-> [orderId |-> i], error |-> None] : i \in OrderIds }
    \cup { [success |-> [orderId |-> 0], error |-> e] : e \in RestErrors }

\* The keyword arguments of create_order: none, client_order_id = None, or a
\* client order id.
NoKwargs == [k \in {} |-> None]

CreateKwargs ==
    {NoKwargs} \cup { [k \in {"client_order_id"} |-> v] : v \in {None, "cid"} }

\* The params and the body of a request: dicts of at most MaxParams items,
\* whose values tell where an item comes from.
ParamKeys == {"symbol", "orderId", "timestamp"}

Dicts(v) ==
    UNION { { d \in [1..n -> ParamKeys \X {v}] :
                \A a, b \in 1..n : d[a][1] = d[b][1] => a = b } :
            n \in 0..MaxParams }

\* ------------------------------------------------------------ conversions
str(i) == ToString(i)

float_sub(a, b) == a - b

\* ------------------------------------------------------------ SingleTask.run
\* An order-update callback that is handed the order of the mapping itself.
no_copy(order) == [fields |-> order, same_object |-> TRUE]

\* copy.copy(order): a new object with the fields of order.
copy_copy(order) == [fields |-> order, same_object |-> FALSE]

OrderUpdate(order, present) ==
    LET handed == copy_copy(order)
    IN  [cb |-> "order_update", order |-> handed.fields,
         same_object |-> handed.same_object, live |-> present]
ErrorNotice(e) == [cb |-> "error", error |-> e]
InitNotice(ok) == [cb |-> "init", success |-> ok]

\* ------------------------------------------------------------- the mapping
EmptyOrders == [k \in {} |-> None]

Put(o, k, order) == [j \in DOMAIN o \cup {k} |-> IF j = k THEN order ELSE o[j]]

Pop(o, k) == [j \in DOMAIN o \ {k} |-> o[j]]

TerminalStatuses ==
    {ORDER_STATUS_FAILED, ORDER_STATUS_CANCELED, ORDER_STATUS_FILLED}

\* ------------------------------------------------------ connected_callback
snapshot_status(x) ==
    IF x = "NEW" THEN ORDER_STATUS_SUBMITTED
    ELSE IF x = "PARTIALLY_FILLED" THEN ORDER_STATUS_PARTIAL_FILLED
    ELSE IF x = "FILLED" THEN ORDER_STATUS_FILLED
    ELSE IF x = "CANCELED" THEN ORDER_STATUS_CANCELED
    ELSE IF x = "REJECTED" THEN ORDER_STATUS_FAILED
    ELSE IF x = "EXPIRED" THEN ORDER_STATUS_FAILED
    ELSE None

\* A load that stores the instance's raw symbol in the order.
snapshot_order_raw(order_info, status) ==
    [order_id |-> str(order_info.orderId),
     symbol |-> raw_symbol,
     quantity |-> order_info.origQty,
     remain |-> float_sub(order_info.origQty, order_info.executedQty),
     status |-> status]

\* A load that forgets the executed quantity.
snapshot_order_unexecuted(order_info, status) ==
    [order_id |-> str(order_info.orderId),
     symbol |-> symbol,
     quantity |-> order_info.origQty,
     remain |-> order_info.origQty,
     status |-> status]

snapshot_order(order_info, status) ==
    [order_id |-> str(order_info.orderId),
     symbol |-> symbol,
     quantity |-> order_info.origQty,
     remain |-> float_sub(order_info.origQty, order_info.executedQty),
     status |-> status]

\* A loop that stores the rows and notifies nobody.
RECURSIVE load_rows_silent(_, _, _)
load_rows_silent(o, cbs, rows) ==
    IF rows = <<>> THEN [orders |-> o, callbacks |-> cbs]
    ELSE LET order_info == Head(rows)
             status == snapshot_status(order_info.status)
         IN  IF status = None
             THEN load_rows_silent(o, Append(cbs, ErrorNotice("order status error.")), Tail(rows))
             ELSE LET order == snapshot_order(order_info, status)
                  IN  load_rows_silent(Put(o, order.order_id, order), cbs, Tail(rows))

\* A loop that keeps the order the mapping already holds under a row's id.
RECURSIVE load_rows_guarded(_, _, _)
load_rows_guarded(o, cbs, rows) ==
    IF rows = <<>> THEN [orders |-> o, callbacks |-> cbs]
    ELSE LET order_info == Head(rows)
             status == snapshot_status(order_info.status)
         IN  IF status = None
             THEN load_rows_guarded(o, Append(cbs, ErrorNotice("order status error.")), Tail(rows))
             ELSE LET order_id == str(order_info.orderId)
                      order == IF order_id \in DOMAIN o THEN o[order_id]
                               ELSE snapshot_order(order_info, status)
                      next == Put(o, order_id, order)
                  IN  load_rows_guarded(next,
                                        Append(cbs, OrderUpdate(order, order_id \in DOMAIN next)),
                                        Tail(rows))

\* A loop that ends at the first row with an unknown status.
RECURSIVE load_rows_abort(_, _, _)
load_rows_abort(o, cbs, rows) ==
    IF rows = <<>> THEN [orders |-> o, callbacks |-> cbs]
    ELSE LET order_info == Head(rows)
             status == snapshot_status(order_info.status)
         IN  IF status = None
             THEN [orders |-> o, callbacks |-> Append(cbs, ErrorNotice("order status error."))]
             ELSE LET order == snapshot_order(order_info, status)
                      next == Put(o, order.order_id, order)
                  IN  load_rows_abort(next,
                                      Append(cbs, OrderUpdate(order, order.order_id \in DOMAIN next)),
                                      Tail(rows))

\* The loop over order_infos: the mapping and the notifications after the rows.
RECURSIVE load_rows(_, _, _)
load_rows(o, cbs, rows) ==
    IF rows = <<>> THEN [orders |-> o, callbacks |-> cbs]
    ELSE LET order_info == Head(rows)
             status == snapshot_status(order_info.status)
         IN  IF status = None
             THEN load_rows(o, Append(cbs, ErrorNotice("order status error.")), Tail(rows))
             ELSE LET order == snapshot_order(order_info, status)
                      next == Put(o, order.order_id, order)
                  IN  load_rows(next,
                                Append(cbs, OrderUpdate(order, order.order_id \in DOMAIN next)),
                                Tail(rows))

\* A connected_callback that drops the mapping when the fetch fails.
connected_callback_reset(o, resp) ==
    IF resp.error # None
    THEN [orders |-> EmptyOrders,
          callbacks |-> << ErrorNotice([msg |-> "get open orders error", cause |-> resp.error]),
                           InitNotice(FALSE) >>]
    ELSE LET r == load_rows(o, <<>>, resp.success)
         IN  [orders |-> r.orders, callbacks |-> Append(r.callbacks, InitNotice(TRUE))]

\* A connected_callback that reports the initialization before it loads.
connected_callback_early(o, resp) ==
    IF resp.error # None
    THEN [orders |-> o,
          callbacks |-> << ErrorNotice([msg |-> "get open orders error", cause |-> resp.error]),
                           InitNotice(FALSE) >>]
    ELSE LET r == load_rows(o, <<InitNotice(TRUE)>>, resp.success)
         IN  [orders |-> r.orders, callbacks |-> r.callbacks]

\* connected_callback from the REST response on.
connected_callback(o, resp) ==
    IF resp.error # None
    THEN [orders |-> o,
          callbacks |-> << ErrorNotice([msg |-> "get open orders error", cause |-> resp.error]),
                           InitNotice(FALSE) >>]
    ELSE LET r == load_rows(o, <<>>, resp.success)
         IN  [orders |-> r.orders, callbacks |-> Append(r.callbacks, InitNotice(TRUE))]

\* ----------------------------------------------------------------- process
process_status(x) ==
    IF x = "NEW" THEN ORDER_STATUS_SUBMITTED
    ELSE IF x = "PARTIALLY_FILLED" THEN ORDER_STATUS_PARTIAL_FILLED
    ELSE IF x = "FILLED" THEN ORDER_STATUS_FILLED
    ELSE IF x = "CANCELED" THEN ORDER_STATUS_CANCELED
    ELSE IF x = "REJECTED" THEN ORDER_STATUS_FAILED
    ELSE IF x = "EXPIRED" THEN ORDER_STATUS_FAILED
    ELSE None

\* A process that does not look at the symbol.
symbol_unchecked(msg) == TRUE

symbol_matches(msg) == msg.s = raw_symbol

\* A process that sets remain only when it builds the order.
event_order_first_remain(o, msg, status) ==
    LET order_id == str(msg.i)
    IN  IF order_id \in DOMAIN o
        THEN [o[order_id] EXCEPT !.status = status]
        ELSE [order_id |-> order_id, symbol |-> symbol, quantity |-> msg.q,
              remain |-> float_sub(msg.q, msg.z), status |-> status]

\* The order of a report: the one the mapping holds, or a new one built from
\* the report; remain and status are then overwritten from the report.
event_order(o, msg, status) ==
    LET order_id == str(msg.i)
        order == IF order_id \in DOMAIN o
                 THEN o[order_id]
                 ELSE [order_id |-> order_id, symbol |-> symbol, quantity |-> msg.q,
                       remain |-> 0, status |-> None]
    IN  [order EXCEPT !.remain = float_sub(msg.q, msg.z), !.status = status]

\* A process that drops the order before it notifies.
evict_and_notify(o, order) ==
    LET kept == IF order.status \in TerminalStatuses THEN Pop(o, order.order_id) ELSE o
    IN  [orders |-> kept,
         callbacks |-> <<OrderUpdate(order, order.order_id \in DOMAIN kept)>>]

\* Notify, then drop the order if its status is terminal.
notify_and_evict(o, order) ==
    LET note == OrderUpdate(order, order.order_id \in DOMAIN o)
    IN  [orders |-> IF order.status \in TerminalStatuses THEN Pop(o, order.order_id) ELSE o,
         callbacks |-> <<note>>]

\* The body of process.
process(o, msg) ==
    IF msg.e # "executionReport" THEN [orders |-> o, callbacks |-> <<>>]
    ELSE IF ~symbol_matches(msg) THEN [orders |-> o, callbacks |-> <<>>]
    ELSE LET status == process_status(msg.X)
         IN  IF status = None
             THEN [orders |-> o, callbacks |-> <<ErrorNotice("order status error.")>>]
             ELSE LET order == event_order(o, msg, status)
                  IN  notify_and_evict(Put(o, order.order_id, order), order)

\* ---------------------------------------------------------- BinanceRestAPI
\* BinanceRestAPI.__init__(self, access_key, secret_key, host).
BinanceRestAPI(key, secret, base) ==
    [host |-> base, access_key |-> key, secret_key |-> secret]

\* The client the trade object builds for itself.
rest_api == BinanceRestAPI(host, access_key, secret_key)

\* No REST call.
NoRequest ==
    [method |-> None, base |-> None, uri |-> None, auth |-> FALSE,
     apikey |-> None, query |-> <<>>, signed |-> FALSE, signed_with |-> None,
     signed_text |-> <<>>]

\* A dict is the sequence of its (key, value) items in insertion order.
has_key(data, k) == \E n \in 1..Len(data) : data[n][1] = k

\* A dict whose update appends every item, also one whose key it holds.
RECURSIVE dict_append(_, _)
dict_append(data, items) ==
    IF items = <<>> THEN data
    ELSE dict_append(Append(data, Head(items)), Tail(items))

\* data.update(items): the value of a key the dict holds is replaced where
\* the key stands, a new key goes to the end.
RECURSIVE dict_update(_, _)
dict_update(data, items) ==
    IF items = <<>> THEN data
    ELSE LET k == Head(items)[1]
             v == Head(items)[2]
             next == IF has_key(data, k)
                     THEN [n \in 1..Len(data) |->
                              IF data[n][1] = k THEN <<k, v>> ELSE data[n]]
                     ELSE Append(data, <<k, v>>)
         IN  dict_update(next, Tail(items))

\* BinanceRestAPI.request: what goes to the transport. urljoin keeps the
\* scheme and the authority of its base and takes the path from uri. The
\* query string "k1=v1&k2=v2" is the sequence of its (k, v) pairs; query is
\* the part of the URL's query before the signature field, signed_text the
\* string the HMAC was computed over, signed_with its key.
request(api, method, uri, params, body, auth) ==
    LET data == dict_update(dict_update(<<>>, params), body)
        query == data
        signed == auth /\ query # <<>>
    IN  [method |-> method, base |-> api.host, uri |-> uri, auth |-> auth,
         apikey |-> api.access_key,
         query |-> query,
         signed |-> signed,
         signed_with |-> IF signed THEN api.secret_key ELSE None,
         signed_text |-> IF signed THEN query ELSE <<>>]

\* The string of a sequence of parts.
RECURSIVE text(_)
text(parts) == IF parts = <<>> THEN "" ELSE Head(parts) \o text(Tail(parts))

\* tools.get_cur_timestamp_ms() at the time of the call.
timestamp == "now"

get_open_orders ==
    request(rest_api, "GET", "/api/v3/openOrders",
            << <<"symbol", text(raw_symbol)>>, <<"timestamp", timestamp>> >>, <<>>, TRUE)

get_listen_key == request(rest_api, "POST", "/api/v1/userDataStream", <<>>, <<>>, FALSE)

put_listen_key(listen_key) ==
    request(rest_api, "PUT", "/api/v1/userDataStream",
            << <<"listenKey", listen_key>> >>, <<>>, FALSE)

\* BinanceRestAPI.create_order; action, price and quantity are passed through.
create_order_request(client_order_id) ==
    LET data == << <<"symbol", text(raw_symbol)>>, <<"side", "action">>,
                   <<"type", "LIMIT">>, <<"timeInForce", "GTC">>,
                   <<"quantity", "quantity">>, <<"price", "price">>,
                   <<"recvWindow", "5000">>, <<"newOrderRespType", "FULL">>,
                   <<"timestamp", timestamp>> >>
    IN  request(rest_api, "POST", "/api/v3/order", <<>>,
                IF client_order_id # None
                THEN Append(data, <<"newClientOrderId", client_order_id>>)
                ELSE data,
                TRUE)

revoke_order_request(order_id) ==
    request(rest_api, "DELETE", "/api/v3/order",
            << <<"symbol", text(raw_symbol)>>, <<"orderId", order_id>>,
               <<"timestamp", timestamp>> >>, <<>>, TRUE)

\* ------------------------------------------------------------- the session
\* The keyword arguments of the constructor: account and strategy as the
\* caller writes them, possibly empty, and the symbol and the keys of the
\* instance.
TradeKwargs ==
    { [account |-> a, strategy |-> st, symbol |-> text(symbol),
       access_key |-> access_key, secret_key |-> secret_key] :
        a \in {"", "account"}, st \in {"", "strategy"} }

ValidKwargs == CHOOSE kwargs \in TradeKwargs : kwargs.account # "" /\ kwargs.strategy # ""

\* The e of __init__: the error of the last required argument that is empty.
init_error(kwargs) ==
    LET e1 == IF kwargs.account = "" THEN "param account miss" ELSE None
        e2 == IF kwargs.strategy = "" THEN "param strategy miss" ELSE e1
        e3 == IF kwargs.symbol = "" THEN "param symbol miss" ELSE e2
        e4 == IF kwargs.access_key = "" THEN "param access_key miss" ELSE e3
        e5 == IF kwargs.secret_key = "" THEN "param secret_key miss" ELSE e4
    IN  e5

\* BinanceTrade.__init__: the error and the failed initialization are
\* dispatched when e is set, and the constructor goes on: no listen key, no
\* stream object, both periodic actions registered, and _init_websocket
\* handed to SingleTask.run.
trade_init(kwargs) ==
    [session |-> [pc |-> "scheduled", listen_key |-> None, ws |-> FALSE,
                  renewal |-> "idle",
                  account |-> kwargs.account, strategy |-> kwargs.strategy],
     callbacks |-> IF init_error(kwargs) # None
                   THEN <<ErrorNotice(init_error(kwargs)), InitNotice(FALSE)>>
                   ELSE <<>>]

\* The instance after __init__ with every argument given.
NewSession == trade_init(ValidKwargs).session

\* An _init_websocket that is run again after a failure.
init_websocket_retry(s, resp) ==
    IF resp.error # None
    THEN [session |-> [s EXCEPT !.pc = "scheduled"],
          callbacks |-> << ErrorNotice([msg |-> "get listen key failed", cause |-> resp.error]),
                           InitNotice(FALSE) >>]
    ELSE [session |-> [s EXCEPT !.pc = "opened",
                                !.listen_key = resp.success.listenKey,
                                !.ws = TRUE],
          callbacks |-> <<>>]

\* _init_websocket from the answer of get_listen_key on.
init_websocket(s, resp) ==
    IF resp.error # None
    THEN [session |-> [s EXCEPT !.pc = "returned"],
          callbacks |-> << ErrorNotice([msg |-> "get listen key failed", cause |-> resp.error]),
                           InitNotice(FALSE) >>]
    ELSE [session |-> [s EXCEPT !.pc = "opened",
                                !.listen_key = resp.success.listenKey,
                                !.ws = TRUE],
          callbacks |-> <<>>]

\* _reset_listen_key up to its REST call.
reset_listen_key(s) ==
    IF s.listen_key = None
    THEN [session |-> s, request |-> NoRequest,
          log |-> [level |-> "error", text |-> "listen key not initialized!"]]
    ELSE [session |-> [s EXCEPT !.renewal = "awaiting"], request |-> put_listen_key(s.listen_key),
          log |-> [level |-> None, text |-> None]]

\* A renewal that closes the stream when the exchange refuses it.
reset_listen_key_close(s, resp) ==
    [session |-> IF resp.error # None
                 THEN [s EXCEPT !.renewal = "idle", !.ws = FALSE]
                 ELSE [s EXCEPT !.renewal = "idle"],
     log |-> [level |-> "info", text |-> "reset listen key success!"]]

\* A renewal that forgets the listen key when the exchange refuses it.
reset_listen_key_forget(s, resp) ==
    [session |-> IF resp.error # None
                 THEN [s EXCEPT !.renewal = "idle", !.listen_key = None]
                 ELSE [s EXCEPT !.renewal = "idle"],
     log |-> [level |-> "info", text |-> "reset listen key success!"]]

\* _reset_listen_key from the answer of put_listen_key on: the answer is
\* dropped.
reset_listen_key_answered(s, resp) ==
    [session |-> [s EXCEPT !.renewal = "idle"],
     log |-> [level |-> "info", text |-> "reset listen key success!"]]

\* _send_heartbeat_msg: self._ws exists once _init_websocket has assigned it.
send_heartbeat_msg(s) ==
    IF s.ws
    THEN [ping |-> TRUE, fault |-> None]
    ELSE [ping |-> FALSE, fault |-> "AttributeError"]

\* --------------------------------------------------- the guard of process
\* A process without the decorator.
process_unlocked == FALSE

\* process is wrapped by async_method_locker("BinanceTrade.process.locker").
process_locker == TRUE

\* The locker lets an invocation in when no invocation holds it, and the one it
\* lets in is the one that has waited longest: k is a position in the queue.
locker_grants(queue, holders, k) == holders = {} /\ k = 1

RemoveAt(q, k) == SubSeq(q, 1, k - 1) \o SubSeq(q, k + 1, Len(q))

\* ------------------------------------------------------------ revoke_order
NoResponse == [success |-> <<>>, error |-> "unset"]

IdleCall ==
    [pc |-> "idle", ids |-> <<>>, fetched |-> NoResponse, todo |-> <<>>,
     cancels |-> <<>>, results |-> <<>>, success |-> <<>>, error |-> <<>>,
     notified |-> <<>>, ret |-> <<>>]

\* revoke_order(*order_ids) up to its first REST call: get_open_orders when no
\* id is given, the cancel of the first id otherwise.
revoke_order(order_ids) ==
    IF Len(order_ids) = 0
    THEN [IdleCall EXCEPT !.pc = "fetch"]
    ELSE [IdleCall EXCEPT !.pc = "cancel", !.ids = order_ids, !.todo = order_ids,
                          !.cancels = <<order_ids[1]>>]

\* No id given: the open orders arrive.
revoke_all_fetched(c, resp) ==
    IF resp.error # None
    THEN [call |-> [c EXCEPT !.pc = "done", !.fetched = resp, !.ret = <<FALSE, resp.error>>],
          callbacks |-> <<ErrorNotice(resp.error)>>]
    ELSE LET order_infos == resp.success
         IN  IF order_infos = <<>>
             THEN [call |-> [c EXCEPT !.pc = "done", !.fetched = resp, !.ret = <<TRUE, None>>],
                   callbacks |-> <<>>]
             ELSE [call |-> [c EXCEPT !.pc = "cancel", !.fetched = resp,
                                      !.todo = [n \in 1..Len(order_infos) |-> order_infos[n].orderId],
                                      !.cancels = <<order_infos[1].orderId>>],
                   callbacks |-> <<>>]

\* A cancel-all that reports success whatever the cancels answered.
revoke_all_deaf(c, error) ==
    LET rest == Tail(c.todo)
    IN  IF rest = <<>>
        THEN [call |-> [c EXCEPT !.pc = "done", !.todo = rest, !.ret = <<TRUE, None>>],
              callbacks |-> <<>>]
        ELSE [call |-> [c EXCEPT !.todo = rest, !.cancels = Append(@, Head(rest))],
              callbacks |-> <<>>]

\* No id given: the cancel of the first order of todo has answered.
revoke_all_cancelled(c, error) ==
    IF error # None
    THEN [call |-> [c EXCEPT !.pc = "done", !.ret = <<FALSE, error>>],
          callbacks |-> <<ErrorNotice(error)>>]
    ELSE LET rest == Tail(c.todo)
         IN  IF rest = <<>>
             THEN [call |-> [c EXCEPT !.pc = "done", !.todo = rest, !.ret = <<TRUE, None>>],
                   callbacks |-> <<>>]
             ELSE [call |-> [c EXCEPT !.todo = rest, !.cancels = Append(@, Head(rest))],
                   callbacks |-> <<>>]

\* One id given: its cancel has answered.
revoke_one_cancelled(c, error) ==
    [call |-> [c EXCEPT !.pc = "done", !.todo = <<>>, !.ret = <<c.ids[1], error>>],
     callbacks |-> IF error # None THEN <<ErrorNotice(error)>> ELSE <<>>]

\* A multi-cancel that stops at the first failure.
revoke_many_abort(c, e) ==
    LET order_id == Head(c.todo)
    IN  IF e # None
        THEN [call |-> [c EXCEPT !.pc = "done", !.error = <<<<order_id, e>>>>,
                                 !.ret = <<c.success, <<<<order_id, e>>>>>>],
              callbacks |-> <<ErrorNotice(e)>>]
        ELSE IF Tail(c.todo) = <<>>
        THEN [call |-> [c EXCEPT !.pc = "done", !.todo = <<>>,
                                 !.success = Append(@, order_id),
                                 !.ret = <<Append(c.success, order_id), c.error>>],
              callbacks |-> <<>>]
        ELSE [call |-> [c EXCEPT !.todo = Tail(@), !.success = Append(@, order_id),
                                 !.cancels = Append(@, c.todo[2])],
              callbacks |-> <<>>]

\* Several ids given: the cancel of the first id of todo has answered.
revoke_many_cancelled(c, e) ==
    LET order_id == Head(c.todo)
        rest == Tail(c.todo)
        success == IF e # None THEN c.success ELSE Append(c.success, order_id)
        error == IF e # None THEN Append(c.error, <<order_id, e>>) ELSE c.error
        noted == IF e # None THEN <<ErrorNotice(e)>> ELSE <<>>
    IN  IF rest = <<>>
        THEN [call |-> [c EXCEPT !.pc = "done", !.todo = rest, !.success = success,
                                 !.error = error, !.ret = <<success, error>>],
              callbacks |-> noted]
        ELSE [call |-> [c EXCEPT !.todo = rest, !.success = success, !.error = error,
                                 !.cancels = Append(@, Head(rest))],
              callbacks |-> noted]

revoke_cancelled(c, error) ==
    IF Len(c.ids) = 0 THEN revoke_all_cancelled(c, error)
    ELSE IF Len(c.ids) = 1 THEN revoke_one_cancelled(c, error)
    ELSE revoke_many_cancelled(c, error)

\* ------------------------------------------------------------ create_order
\* create_order(action, price, quantity, **kwargs) up to its REST call:
\* kwargs["client_order_id"] raises KeyError when the key is absent.
create_order(kwargs) ==
    IF "client_order_id" \notin DOMAIN kwargs
    THEN [call |-> [IdleCall EXCEPT !.pc = "raised"], fault |-> "KeyError",
          request |-> NoRequest]
    ELSE [call |-> [IdleCall EXCEPT !.pc = "create"], fault |-> None,
          request |-> create_order_request(kwargs["client_order_id"])]

\* A create_order that stores the order it has created.
create_order_stored(o, c, resp) ==
    IF resp.error # None
    THEN [orders |-> o, call |-> [c EXCEPT !.pc = "created", !.ret = <<None, resp.error>>],
          callbacks |-> <<ErrorNotice(resp.error)>>]
    ELSE LET order_id == str(resp.success.orderId)
         IN  [orders |-> Put(o, order_id,
                             [order_id |-> order_id, symbol |-> symbol, quantity |-> 1,
                              remain |-> 1, status |-> ORDER_STATUS_SUBMITTED]),
              call |-> [c EXCEPT !.pc = "created", !.ret = <<order_id, None>>],
              callbacks |-> <<>>]

\* create_order from the answer of the REST call on.
create_order_answered(o, c, resp) ==
    IF resp.error # None
    THEN [orders |-> o, call |-> [c EXCEPT !.pc = "created", !.ret = <<None, resp.error>>],
          callbacks |-> <<ErrorNotice(resp.error)>>]
    ELSE [orders |-> o,
          call |-> [c EXCEPT !.pc = "created", !.ret = <<str(resp.success.orderId), None>>],
          callbacks |-> <<>>]

\* ------------------------------------------------------ get_open_order_ids
\* A get_open_order_ids that keeps a failure to itself.
get_open_order_ids_quiet(c, resp) ==
    IF resp.error # None
    THEN [call |-> [c EXCEPT !.pc = "listed", !.ret = <<None, resp.error>>],
          callbacks |-> <<>>]
    ELSE [call |-> [c EXCEPT !.pc = "listed",
                             !.ret = <<[n \in 1..Len(resp.success) |->
                                           str(resp.success[n].orderId)], None>>],
          callbacks |-> <<>>]

\* get_open_order_ids from the answer of get_open_orders on.
get_open_order_ids_answered(c, resp) ==
    IF resp.error # None
    THEN [call |-> [c EXCEPT !.pc = "listed", !.ret = <<None, resp.error>>],
          callbacks |-> <<ErrorNotice(resp.error)>>]
    ELSE [call |-> [c EXCEPT !.pc = "listed",
                             !.ret = <<[n \in 1..Len(resp.success) |->
                                           str(resp.success[n].orderId)], None>>],
          callbacks |-> <<>>]

\* No REST operation of the trade object is under way.
call_free(c) == c.pc \in {"idle", "done", "raised", "created", "listed"}

\* The REST call a revoke_order coroutine has just issued.
revoke_request(c) ==
    IF c.pc = "fetch" THEN get_open_orders
    ELSE IF c.pc = "cancel" THEN revoke_order_request(Head(c.todo))
    ELSE NoRequest

\* The arguments of revoke_order: order ids as create_order returns them.
RevokeArgs == UNION { [1..n -> {str(i) : i \in OrderIds}] : n \in 0..MaxArgs }

\* The answer of a cancel: no error, or one.
CancelErrors == {None} \cup RestErrors

\* Whether self._orders.get(order_id) finds the order of the report.
Known(o, msg) == msg.e = "executionReport" /\ str(msg.i) \in DOMAIN o

\* --------------------------------------------- the order-update callback
\* The recipient of order updates before it has received one.
NoneHeld ==
    [has |-> FALSE, same_object |-> FALSE,
     order |-> [order_id |-> None, symbol |-> symbol, quantity |-> 0, remain |-> 0,
                status |-> None]]

\* The recipient takes the order of a notification; the object it holds is
\* the one of the mapping when no copy was made and the mapping still holds it.
received(o, note) ==
    [has |-> TRUE,
     same_object |-> /\ note.same_object
                     /\ note.order.order_id \in DOMAIN o
                     /\ o[note.order.order_id] = note.order,
     order |-> note.order]

\* What the recipient holds after process has run: process writes remain and
\* status into the object of the mapping, and the recipient sees the writes
\* when that object is the one it holds.
held_after_process(h, o, msg) ==
    LET r == process(o, msg)
    IN  IF /\ h.has
           /\ h.same_object
           /\ Len(r.callbacks) = 1
           /\ r.callbacks[1].cb = "order_update"
           /\ r.callbacks[1].order.order_id = h.order.order_id
        THEN [h EXCEPT !.order = r.callbacks[1].order,
                       !.same_object = h.order.order_id \in DOMAIN r.orders]
        ELSE h

\* What the recipient holds after a snapshot load: the load stores new
\* objects, so an object the recipient shared with the mapping is shared no more.
held_after_load(h, resp) ==
    IF /\ h.has
       /\ h.same_object
       /\ resp.error = None
       /\ \E n \in 1..Len(resp.success) :
              /\ snapshot_status(resp.success[n].status) # None
              /\ str(resp.success[n].orderId) = h.order.order_id
    THEN [h EXCEPT !.same_object = FALSE]
    ELSE h

\* The recipient changes the order it holds.
tampered(order) == [order EXCEPT !.status = "tampered", !.remain = 0]

\* ------------------------------------------------------------------- state
VARIABLES
    orders,      \* self._orders
    conn,        \* connected_callback: "idle", or "fetching" while it awaits get_open_orders
    callbacks,   \* the tasks the last step handed to SingleTask.run, in order
    last,        \* the last step: its operation and its input
    waiting,     \* process invocations waiting for the guard, in arrival order
    running,     \* process invocations that hold the guard
    delivered,   \* messages the transport has delivered
    applied,     \* arrival numbers of the invocations whose body ran, in that order
    call,        \* the revoke_order coroutine: its position, locals and REST calls
    session,     \* _init_websocket's position, self._listen_key, whether self._ws
                 \* exists, _reset_listen_key's position, self._account and
                 \* self._strategy
    evicted,     \* observed: the order ids process has popped from self._orders
    held         \* observed: the order the order-update callback received last

vars ==
    <<orders, conn, callbacks, last, waiting, running, delivered, applied, call,
      session, evicted, held>>

guardVars == <<waiting, running, delivered, applied>>

Init ==
    /\ orders = EmptyOrders
    /\ conn = "idle"
    /\ callbacks = <<>>
    /\ last = [op |-> "init"]
    /\ waiting = <<>>
    /\ running = {}
    /\ delivered = 0
    /\ applied = <<>>
    /\ call = IdleCall
    /\ session = NewSession
    /\ evicted = {}
    /\ held = NoneHeld

\* ----------------------------------------------------------------- actions
\* The transport invokes connected_callback, which awaits the open orders.
ConnectedCallbackStart ==
    /\ session.ws
    /\ conn = "idle"
    /\ conn' = "fetching"
    /\ callbacks' = <<>>
    /\ last' = [op |-> "connected_callback.await", request |-> get_open_orders]
    /\ UNCHANGED <<orders, guardVars, call, session, evicted, held>>

\* The REST response arrives and connected_callback runs to its end.
ConnectedCallbackLoad(resp) ==
    /\ conn = "fetching"
    /\ LET r == connected_callback(orders, resp)
       IN  /\ orders' = r.orders
           /\ callbacks' = r.callbacks
    /\ conn' = "idle"
    /\ last' = [op |-> "connected_callback", resp |-> resp, known |-> DOMAIN orders]
    /\ UNCHANGED <<guardVars, call, session>>

ConnectedCallbackResume(resp) ==
    /\ ConnectedCallbackLoad(resp)
    /\ UNCHANGED <<evicted, held>>

\* A message arrives while no invocation of process is pending: the invocation
\* takes the guard, runs its body and releases the guard.
ProcessInvocation(msg) ==
    /\ session.ws
    /\ waiting = <<>>
    /\ running = {}
    /\ LET r == process(orders, msg)
       IN  /\ orders' = r.orders
           /\ callbacks' = r.callbacks
    /\ last' = [op |-> "process", msg |-> msg, known |-> Known(orders, msg)]
    /\ UNCHANGED <<conn, guardVars, call, session>>

ProcessMessage(msg) ==
    /\ ProcessInvocation(msg)
    /\ UNCHANGED <<evicted, held>>

\* The transport delivers a message: an invocation of process is started and
\* waits for the guard.
Deliver(msg) ==
    /\ session.ws
    /\ delivered < MaxEvents
    /\ delivered' = delivered + 1
    /\ waiting' = Append(waiting, [n |-> delivered + 1, msg |-> msg])
    /\ callbacks' = <<>>
    /\ last' = [op |-> "deliver"]
    /\ UNCHANGED <<orders, conn, running, applied, call, session, evicted, held>>

\* The k-th waiting invocation passes the guard.
ProcessEnter(k) ==
    /\ k \in 1..Len(waiting)
    /\ process_locker => locker_grants(waiting, running, k)
    /\ running' = running \cup {waiting[k]}
    /\ waiting' = RemoveAt(waiting, k)
    /\ callbacks' = <<>>
    /\ last' = [op |-> "process.enter"]
    /\ UNCHANGED <<orders, conn, delivered, applied, call, session, evicted, held>>

\* An invocation inside the guard runs the body of process and leaves.
ProcessBody(t) ==
    /\ t \in running
    /\ LET r == process(orders, t.msg)
       IN  /\ orders' = r.orders
           /\ callbacks' = r.callbacks
    /\ running' = running \ {t}
    /\ applied' = Append(applied, t.n)
    /\ last' = [op |-> "process", msg |-> t.msg, known |-> Known(orders, t.msg)]
    /\ UNCHANGED <<conn, waiting, delivered, call, session, evicted, held>>

\* revoke_order is called.
RevokeOrder(order_ids) ==
    /\ call_free(call)
    /\ call' = revoke_order(order_ids)
    /\ callbacks' = <<>>
    /\ last' = [op |-> "revoke_order.call", request |-> revoke_request(call')]
    /\ UNCHANGED <<orders, conn, guardVars, session, evicted, held>>

\* get_open_orders answers revoke_order.
RevokeOrderFetched(resp) ==
    /\ call.pc = "fetch"
    /\ LET r == revoke_all_fetched(call, resp)
       IN  /\ call' = [r.call EXCEPT !.notified = @ \o r.callbacks]
           /\ callbacks' = r.callbacks
    /\ last' = [op |-> "revoke_order.fetched", request |-> revoke_request(call')]
    /\ UNCHANGED <<orders, conn, guardVars, session, evicted, held>>

\* The cancel revoke_order waits for answers.
RevokeOrderCancelled(error) ==
    /\ call.pc = "cancel"
    /\ LET r == revoke_cancelled(call, error)
       IN  /\ call' = [r.call EXCEPT !.results = Append(@, error),
                                     !.notified = @ \o r.callbacks]
           /\ callbacks' = r.callbacks
    /\ last' = [op |-> "revoke_order.cancelled", request |-> revoke_request(call')]
    /\ UNCHANGED <<orders, conn, guardVars, session, evicted, held>>

\* create_order is called.
CreateOrder(kwargs) ==
    /\ call_free(call)
    /\ LET r == create_order(kwargs)
       IN  /\ call' = r.call
           /\ last' = [op |-> "create_order.call", kwargs |-> kwargs,
                       fault |-> r.fault, request |-> r.request]
    /\ callbacks' = <<>>
    /\ UNCHANGED <<orders, conn, guardVars, session, evicted, held>>

\* The REST call answers create_order.
CreateOrderAnswered(resp) ==
    /\ call.pc = "create"
    /\ LET r == create_order_answered(orders, call, resp)
       IN  /\ orders' = r.orders
           /\ call' = r.call
           /\ callbacks' = r.callbacks
    /\ last' = [op |-> "create_order", resp |-> resp]
    /\ UNCHANGED <<conn, guardVars, session, evicted, held>>

\* get_open_order_ids is called.
GetOpenOrderIds ==
    /\ call_free(call)
    /\ call' = [IdleCall EXCEPT !.pc = "open_ids"]
    /\ callbacks' = <<>>
    /\ last' = [op |-> "get_open_order_ids.call", request |-> get_open_orders]
    /\ UNCHANGED <<orders, conn, guardVars, session, evicted, held>>

\* get_open_orders answers get_open_order_ids.
GetOpenOrderIdsAnswered(resp) ==
    /\ call.pc = "open_ids"
    /\ LET r == get_open_order_ids_answered(call, resp)
       IN  /\ call' = r.call
           /\ callbacks' = r.callbacks
    /\ last' = [op |-> "get_open_order_ids", resp |-> resp]
    /\ UNCHANGED <<orders, conn, guardVars, session, evicted, held>>

\* SingleTask.run starts _init_websocket, which awaits get_listen_key.
InitWebsocketStart ==
    /\ session.pc = "scheduled"
    /\ session' = [session EXCEPT !.pc = "awaiting"]
    /\ callbacks' = <<>>
    /\ last' = [op |-> "_init_websocket.await", request |-> get_listen_key]
    /\ UNCHANGED <<orders, conn, guardVars, call, evicted, held>>

\* get_listen_key answers and _init_websocket runs to its end.
InitWebsocketResume(resp) ==
    /\ session.pc = "awaiting"
    /\ LET r == init_websocket(session, resp)
       IN  /\ session' = r.session
           /\ callbacks' = r.callbacks
    /\ last' = [op |-> "_init_websocket", resp |-> resp]
    /\ UNCHANGED <<orders, conn, guardVars, call, evicted, held>>

\* LoopRunTask runs _reset_listen_key, registered by __init__: it returns at
\* once without a listen key, and awaits put_listen_key with one.
ResetListenKeyStart ==
    /\ session.renewal = "idle"
    /\ LET r == reset_listen_key(session)
       IN  /\ session' = r.session
           /\ last' = [op |-> IF r.request = NoRequest THEN "_reset_listen_key.return"
                                                       ELSE "_reset_listen_key.await",
                       request |-> r.request, log |-> r.log]
    /\ callbacks' = <<>>
    /\ UNCHANGED <<orders, conn, guardVars, call, evicted, held>>

\* put_listen_key answers and _reset_listen_key runs to its end.
ResetListenKeyResume(resp) ==
    /\ session.renewal = "awaiting"
    /\ LET r == reset_listen_key_answered(session, resp)
       IN  /\ session' = r.session
           /\ last' = [op |-> "_reset_listen_key", resp |-> resp, log |-> r.log]
    /\ callbacks' = <<>>
    /\ UNCHANGED <<orders, conn, guardVars, call, evicted, held>>

\* LoopRunTask runs _send_heartbeat_msg, registered by __init__.
SendHeartbeatMsg ==
    /\ LET r == send_heartbeat_msg(session)
       IN  last' = [op |-> "_send_heartbeat_msg", ping |-> r.ping, fault |-> r.fault]
    /\ callbacks' = <<>>
    /\ UNCHANGED <<orders, conn, guardVars, call, session, evicted, held>>

\* The answers of get_listen_key that differ in more than the key.
AcquireResponses ==
    {r \in ListenKeyResponses : r.success.listenKey # "listenKey2" /\ r.error # "rejected"}

Next ==
    \/ InitWebsocketStart
    \/ \E resp \in AcquireResponses : InitWebsocketResume(resp)
    \/ ConnectedCallbackStart
    \/ \E resp \in OpenOrdersResponses : ConnectedCallbackResume(resp)
    \/ \E msg \in {m \in StreamMessages : ValidMessage(m)} : ProcessMessage(msg)

Spec == Init /\ [][Next]_vars

\* ------------------------------------------- the guard, with few messages
GuardMessages ==
    {m \in StreamMessages :
        /\ ValidMessage(m)
        /\ m.e = "executionReport"
        /\ m.s = raw_symbol
        /\ m.i = 1
        /\ m.X \in {"NEW", "FILLED"}}

GuardResponses ==
    {r \in OpenOrdersResponses :
        /\ r.error # "rejected"
        /\ \A n \in 1..Len(r.success) :
              r.success[n].orderId = 1 /\ r.success[n].status = "NEW"}

NextGuard ==
    \/ InitWebsocketStart
    \/ \E resp \in AcquireResponses : InitWebsocketResume(resp)
    \/ \E msg \in GuardMessages : Deliver(msg)
    \/ \E k \in 1..MaxEvents : ProcessEnter(k)
    \/ \E t \in running : ProcessBody(t)
    \/ ConnectedCallbackStart
    \/ \E resp \in GuardResponses : ConnectedCallbackResume(resp)

SpecGuard == Init /\ [][NextGuard]_vars

\* --------------------------------------------------- the REST operations
\* revoke_order reads nothing but orderId from the rows of its fetch: the
\* answers that differ in the order ids, their order, or the error.
RevokeResponses ==
    {r \in OpenOrdersResponses :
        \A n \in 1..Len(r.success) :
            /\ r.success[n].status = "NEW"
            /\ r.success[n].origQty = 1
            /\ r.success[n].executedQty = 0}

NextRest ==
    \/ InitWebsocketStart
    \/ \E resp \in AcquireResponses : InitWebsocketResume(resp)
    \/ \E order_ids \in RevokeArgs : RevokeOrder(order_ids)
    \/ \E resp \in RevokeResponses : RevokeOrderFetched(resp)
    \/ \E error \in CancelErrors : RevokeOrderCancelled(error)
    \/ \E kwargs \in CreateKwargs : CreateOrder(kwargs)
    \/ \E resp \in CreateResponses : CreateOrderAnswered(resp)
    \/ GetOpenOrderIds
    \/ \E resp \in RevokeResponses : GetOpenOrderIdsAnswered(resp)
    \/ \E msg \in GuardMessages : ProcessMessage(msg)

SpecRest == Init /\ [][NextRest]_vars

\* --------------------------------------------------------------- the session
NextSession ==
    \/ InitWebsocketStart
    \/ \E resp \in ListenKeyResponses : InitWebsocketResume(resp)
    \/ ResetListenKeyStart
    \/ \E resp \in PutResponses : ResetListenKeyResume(resp)
    \/ SendHeartbeatMsg
    \/ ConnectedCallbackStart
    \/ \E resp \in GuardResponses : ConnectedCallbackResume(resp)
    \/ \E msg \in GuardMessages : ProcessMessage(msg)

SpecSession == Init /\ [][NextSession]_vars

\* ----------------------------------------------------------- the constructor
\* The instance after __init__, whatever the caller has passed.
InitConstructed ==
    \E kwargs \in TradeKwargs :
        /\ session = trade_init(kwargs).session
        /\ callbacks = trade_init(kwargs).callbacks
        /\ last = [op |-> "__init__", kwargs |-> kwargs]
        /\ orders = EmptyOrders
        /\ conn = "idle"
        /\ waiting = <<>>
        /\ running = {}
        /\ delivered = 0
        /\ applied = <<>>
        /\ call = IdleCall
        /\ evicted = {}
        /\ held = NoneHeld

SpecConstructed == InitConstructed /\ [][NextSession]_vars

\* ------------------------------------------- the reconciler and its observer
\* process runs, and the observer records what it removed and what became of
\* the order the recipient holds.
ProcessObserved(msg) ==
    /\ ProcessInvocation(msg)
    /\ evicted' = evicted \cup (DOMAIN orders \ DOMAIN orders')
    /\ held' = held_after_process(held, orders, msg)

\* connected_callback ends, and the observer records what became of the order
\* the recipient holds.
ConnectedCallbackObserved(resp) ==
    /\ ConnectedCallbackLoad(resp)
    /\ held' = held_after_load(held, resp)
    /\ UNCHANGED evicted

\* SingleTask runs order_update_callback with the order of a notification.
OrderUpdateCallback(n) ==
    /\ n \in 1..Len(callbacks)
    /\ callbacks[n].cb = "order_update"
    /\ held' = received(orders, callbacks[n])
    /\ callbacks' = <<>>
    /\ last' = [op |-> "order_update_callback"]
    /\ UNCHANGED <<orders, conn, guardVars, call, session, evicted>>

\* The recipient writes into the order it received.
RecipientWrites ==
    /\ held.has
    /\ held.order.status # "tampered"
    /\ held' = [held EXCEPT !.order = tampered(@)]
    /\ orders' = IF held.same_object
                 THEN [orders EXCEPT ![held.order.order_id] = tampered(@)]
                 ELSE orders
    /\ callbacks' = <<>>
    /\ last' = [op |-> "recipient.write"]
    /\ UNCHANGED <<conn, guardVars, call, session, evicted>>

ObservedMessages ==
    {m \in StreamMessages :
        /\ ValidMessage(m)
        /\ m.e = "executionReport"
        /\ m.s = raw_symbol
        /\ m.i = 1
        /\ m.X \in {"NEW", "PARTIALLY_FILLED", "FILLED"}}

NextObserved ==
    \/ InitWebsocketStart
    \/ \E resp \in AcquireResponses : InitWebsocketResume(resp)
    \/ ConnectedCallbackStart
    \/ \E resp \in GuardResponses : ConnectedCallbackObserved(resp)
    \/ \E msg \in ObservedMessages : ProcessObserved(msg)
    \/ \E n \in 1..MaxRows : OrderUpdateCallback(n)
    \/ RecipientWrites

SpecObserved == Init /\ [][NextObserved]_vars

\* ------------------------------------------------------------- the signer
\* BinanceRestAPI.request is called, up to the transport.
Request(params, body, auth) ==
    /\ last' = [op |-> "request", params |-> params, body |-> body, auth |-> auth,
                request |-> request(rest_api, "GET", "/api/v3/order", params, body, auth)]
    /\ callbacks' = <<>>
    /\ UNCHANGED <<orders, conn, guardVars, call, session, evicted, held>>

NextSigner ==
    \E params \in Dicts("1"), body \in Dicts("2"), auth \in BOOLEAN :
        Request(params, body, auth)

SpecSigner == Init /\ [][NextSigner]_vars

\* ================================================================== claims
\* The vocabulary of the exchange and of the order module, as the
\* specification lists them.
Recognised == {"NEW", "PARTIALLY_FILLED", "FILLED", "CANCELED", "REJECTED", "EXPIRED"}

Normalized(x) ==
    CASE x = "NEW" -> "SUBMITTED"
      [] x = "PARTIALLY_FILLED" -> "PARTIAL_FILLED"
      [] x = "FILLED" -> "FILLED"
      [] x = "CANCELED" -> "CANCELED"
      [] x \in {"REJECTED", "EXPIRED"} -> "FAILED"

Terminal == {"FILLED", "CANCELED", "FAILED"}

\* The rows of a snapshot that are not skipped, by position.
KeptRows(rows) == {n \in 1..Len(rows) : rows[n].status \in Recognised}

KeptIds(rows) == {ToString(rows[n].orderId) : n \in KeptRows(rows)}

LoadedSnapshot(l) == l.op = "connected_callback" /\ l.resp.error = None

\* The last step was process on an execution report for the configured
\* symbol with a recognised status.
AppliedReport(l) ==
    /\ l.op = "process"
    /\ l.msg.e = "executionReport"
    /\ l.msg.s = <<"BTC", "USDT">>
    /\ l.msg.X \in Recognised

\* C1 (as claimed): after connected_callback has loaded a snapshot, the key set
\* of the live mapping equals the set of order ids of the rows with a
\* recognised status, and each of those entries has remain = origQty -
\* executedQty of its row.
C1_ExactlySnapshot ==
    LoadedSnapshot(last) =>
        LET rows == last.resp.success
        IN  /\ DOMAIN orders = KeptIds(rows)
            /\ \A n \in KeptRows(rows) :
                   orders[ToString(rows[n].orderId)].remain
                       = rows[n].origQty - rows[n].executedQty

\* C1 (amended): a snapshot load puts exactly one entry into the live mapping
\* for each row with a recognised status, under the row's order id and with
\* remain = origQty - executedQty of that row, and leaves every entry under
\* another id as it was: the key set afterwards is the key set before plus the
\* ids of the rows that were not skipped.
C1_SnapshotMerged ==
    [][ LoadedSnapshot(last') =>
          LET rows == last'.resp.success
          IN  /\ DOMAIN orders' = DOMAIN orders \cup KeptIds(rows)
              /\ \A n \in KeptRows(rows) :
                     /\ orders'[ToString(rows[n].orderId)].order_id = ToString(rows[n].orderId)
                     /\ orders'[ToString(rows[n].orderId)].remain
                            = rows[n].origQty - rows[n].executedQty
              /\ \A k \in DOMAIN orders \ KeptIds(rows) : orders'[k] = orders[k] ]_vars

\* C1's case: a snapshot of two rows, one of them skipped and one partly
\* executed, was loaded into a mapping that keeps an entry of its own.
C1_Witness ==
    /\ LoadedSnapshot(last)
    /\ Len(last.resp.success) = 2
    /\ Cardinality(KeptRows(last.resp.success)) = 1
    /\ \E n \in KeptRows(last.resp.success) : last.resp.success[n].executedQty > 0
    /\ Cardinality(DOMAIN orders) = 2

\* C2: after process has handled an execution report for the configured
\* symbol with a recognised status, the order held under the report's id (if
\* one is held) has remain = q - z and status = the mapped X of that report,
\* whatever the mapping held before; a report with a status that is not
\* terminal always leaves such an order.
C2_LastWriteWins ==
    AppliedReport(last) =>
        LET m == last.msg
            id == ToString(m.i)
        IN  /\ Normalized(m.X) \notin Terminal => id \in DOMAIN orders
            /\ id \in DOMAIN orders =>
                   /\ orders[id].remain = m.q - m.z
                   /\ orders[id].status = Normalized(m.X)

\* C2's case: a report overwrote an order the mapping already held.
C2_Witness ==
    /\ AppliedReport(last)
    /\ last.known
    /\ last.msg.X = "PARTIALLY_FILLED"
    /\ last.msg.z = 1
    /\ ToString(last.msg.i) \in DOMAIN orders

\* C3 (as claimed): no order in the live mapping has a terminal status.
C3_NoTerminalLive ==
    \A k \in DOMAIN orders : orders[k].status \notin Terminal

\* C6: process on a report with a terminal mapped status dispatches exactly
\* one order-update notification, carrying that status and remain = q - z,
\* while the order is still in the mapping, and has removed the order id from
\* the mapping when the step ends.
C6_NotifyThenEvict ==
    (AppliedReport(last) /\ Normalized(last.msg.X) \in Terminal) =>
        /\ Len(callbacks) = 1
        /\ callbacks[1].cb = "order_update"
        /\ callbacks[1].order.order_id = ToString(last.msg.i)
        /\ callbacks[1].order.status = Normalized(last.msg.X)
        /\ callbacks[1].order.remain = last.msg.q - last.msg.z
        /\ callbacks[1].live
        /\ ToString(last.msg.i) \notin DOMAIN orders

\* C6's case: a FILLED report for an order the mapping held.
C6_Witness ==
    /\ AppliedReport(last)
    /\ last.known
    /\ last.msg.X = "FILLED"
    /\ Len(callbacks) = 1
    /\ DOMAIN orders # {}

\* C7: process on an execution report whose symbol is not the configured raw
\* symbol changes nothing in the live mapping and dispatches no notification.
C7_OtherSymbolIgnored ==
    [][ (/\ last'.op = "process"
         /\ last'.msg.e = "executionReport"
         /\ last'.msg.s # <<"BTC", "USDT">>)
        => (orders' = orders /\ callbacks' = <<>>) ]_vars

\* C7's case: a FILLED report of another symbol for the id of an order the
\* mapping holds.
C7_Witness ==
    /\ last.op = "process"
    /\ last.msg.e = "executionReport"
    /\ last.msg.s = <<"ETH", "USDT">>
    /\ last.msg.X = "FILLED"
    /\ last.known
    /\ ToString(last.msg.i) \in DOMAIN orders

\* C4: at most one invocation of process is inside the body at any time, and
\* the bodies run in the order in which the messages arrived: the n-th body
\* that runs is the one of the n-th message delivered.
C4_Serialized ==
    /\ Cardinality(running) <= 1
    /\ \A n \in 1..Len(applied) : applied[n] = n

\* C4's case: a message was delivered, and waits, while the invocation for an
\* earlier one is inside the body and a still earlier one has finished.
C4_Witness ==
    /\ running # {}
    /\ Len(waiting) >= 1
    /\ Len(applied) >= 1

\* C5 (as claimed): no body of process runs while connected_callback is between
\* the start of its open-order fetch and the end of its load.
C5_ConnectGuarded ==
    ~(conn = "fetching" /\ last.op = "process")

\* revoke_order() returned, and was called with no id.
RevokedAll == call.pc = "done" /\ Len(call.ids) = 0

\* revoke_order(id1, id2, ...) returned.
RevokedMany == call.pc = "done" /\ Len(call.ids) >= 2

\* C8 (as claimed): revoke_order() with no id issues exactly one cancel for
\* each open order its get_open_orders call returned, in that order, and for
\* no other id.
C8_CancelsEveryOpenOrder ==
    (RevokedAll /\ call.fetched.error = None) =>
        call.cancels = [n \in 1..Len(call.fetched.success) |->
                            call.fetched.success[n].orderId]

\* The first answer that is an error.
FirstFailure(results) ==
    results[CHOOSE n \in 1..Len(results) :
                /\ results[n] # None
                /\ \A j \in 1..(n - 1) : results[j] = None]

\* C9: revoke_order() with no id returns (True, None) exactly when its fetch
\* and every cancel it issued succeeded; otherwise it returns (False, error)
\* with the error of the call that failed, and has dispatched exactly that
\* error to the error callback.
C9_RevokeAllResult ==
    RevokedAll =>
        LET fetchOk == call.fetched.error = None
            allOk == \A n \in 1..Len(call.results) : call.results[n] = None
        IN  /\ Len(call.results) = Len(call.cancels)
            /\ (call.ret = <<TRUE, None>>) <=> (fetchOk /\ allOk)
            /\ (fetchOk /\ allOk) => call.notified = <<>>
            /\ ~fetchOk =>
                   /\ call.ret = <<FALSE, call.fetched.error>>
                   /\ call.notified = <<[cb |-> "error", error |-> call.fetched.error]>>
                   /\ call.cancels = <<>>
            /\ (fetchOk /\ ~allOk) =>
                   /\ call.ret = <<FALSE, FirstFailure(call.results)>>
                   /\ call.notified = <<[cb |-> "error", error |-> FirstFailure(call.results)]>>

\* C9's case: two open orders were fetched, the first cancel succeeded and
\* the second failed.
C9_Witness ==
    /\ RevokedAll
    /\ Len(call.fetched.success) = 2
    /\ call.results = <<None, "timeout">>
    /\ call.ret = <<FALSE, "timeout">>

\* The ids whose cancel succeeded, and the (id, error) pairs of those whose
\* cancel failed, by argument position.
RECURSIVE Succeeded(_, _)
Succeeded(ids, results) ==
    IF ids = <<>> THEN <<>>
    ELSE IF Head(results) = None
         THEN <<Head(ids)>> \o Succeeded(Tail(ids), Tail(results))
         ELSE Succeeded(Tail(ids), Tail(results))

RECURSIVE Failed(_, _)
Failed(ids, results) ==
    IF ids = <<>> THEN <<>>
    ELSE IF Head(results) # None
         THEN << <<Head(ids), Head(results)>> >> \o Failed(Tail(ids), Tail(results))
         ELSE Failed(Tail(ids), Tail(results))

Range(f) == {f[n] : n \in DOMAIN f}

Notices(cbs, kind) == {n \in 1..Len(cbs) : cbs[n].cb = kind}

\* The last step was connected_callback on a failed open-order fetch.
FetchFailed(l) == l.op = "connected_callback" /\ l.resp.error # None

\* C11: when the open-order fetch of connected_callback fails, the live
\* mapping is exactly what it was before the call, no order-update
\* notification is dispatched, and exactly one initialization notification,
\* with success = False, is dispatched together with one error notification.
C11_FetchFailureKeepsMapping ==
    [][ FetchFailed(last') =>
          /\ orders' = orders
          /\ Notices(callbacks', "order_update") = {}
          /\ Cardinality(Notices(callbacks', "init")) = 1
          /\ \A n \in Notices(callbacks', "init") : callbacks'[n].success = FALSE
          /\ Cardinality(Notices(callbacks', "error")) = 1 ]_vars

\* C11's case: the fetch failed while the mapping held two orders.
C11_Witness ==
    /\ FetchFailed(last)
    /\ Cardinality(DOMAIN orders) = 2
    /\ Len(callbacks) = 2

\* The rows of a snapshot with an unknown status, by position.
SkippedRows(rows) == {n \in 1..Len(rows) : rows[n].status \notin Recognised}

\* The rows of a snapshot that are not skipped, in row order.
KeptSeq(rows) == SelectSeq(rows, LAMBDA r : r.status \in Recognised)

\* The notifications of one kind, in dispatch order.
NoticeSeq(cbs, kind) == SelectSeq(cbs, LAMBDA c : c.cb = kind)

\* The last step was process on a report for the configured symbol whose
\* status is unknown.
UnknownReport(l) ==
    /\ l.op = "process"
    /\ l.msg.e = "executionReport"
    /\ l.msg.s = <<"BTC", "USDT">>
    /\ l.msg.X \notin Recognised

\* C12: a snapshot row or an execution report with an unknown exchange status
\* is skipped with a signal. An unknown report dispatches exactly one error
\* notification and nothing else, and leaves the mapping and the rest of the
\* state as they were. A loaded snapshot dispatches one error notification
\* per unknown row and one order-update per other row, in row order; an
\* unknown row puts nothing under its id, and every other row is stored.
C12_UnknownStatusSkipped ==
    [][ /\ UnknownReport(last') =>
              /\ orders' = orders
              /\ conn' = conn
              /\ Len(callbacks') = 1
              /\ callbacks'[1].cb = "error"
        /\ LoadedSnapshot(last') =>
              LET rows == last'.resp.success
                  kept == KeptSeq(rows)
                  updates == NoticeSeq(callbacks', "order_update")
              IN  /\ Cardinality(Notices(callbacks', "error")) = Cardinality(SkippedRows(rows))
                  /\ Len(updates) = Len(kept)
                  /\ \A n \in 1..Len(kept) :
                         /\ updates[n].order.order_id = ToString(kept[n].orderId)
                         /\ updates[n].order.status = Normalized(kept[n].status)
                         /\ ToString(kept[n].orderId) \in DOMAIN orders'
                  /\ \A n \in SkippedRows(rows) :
                         LET id == ToString(rows[n].orderId)
                         IN  IF id \in DOMAIN orders
                             THEN orders'[id] = orders[id]
                             ELSE id \notin DOMAIN orders' ]_vars

\* C12's case: a snapshot whose first row has an unknown status and whose
\* second row has not; the second row was loaded and notified.
C12_Witness ==
    /\ LoadedSnapshot(last)
    /\ Len(last.resp.success) = 2
    /\ last.resp.success[1].status = "PENDING_CANCEL"
    /\ last.resp.success[2].status = "NEW"
    /\ Len(callbacks) = 3
    /\ callbacks[1].cb = "error"
    /\ callbacks[2].cb = "order_update"
    /\ ToString(last.resp.success[1].orderId) \notin DOMAIN orders

\* C13: every run of connected_callback dispatches exactly one initialization
\* notification, as the last of its notifications (after the order-update of
\* every row), and its success flag is True exactly when the fetch succeeded,
\* whether or not rows were skipped.
C13_OneInitNotice ==
    last.op = "connected_callback" =>
        /\ Notices(callbacks, "init") = {Len(callbacks)}
        /\ callbacks[Len(callbacks)].success = (last.resp.error = None)

\* C13's case: a snapshot of two rows, the second of them skipped, ended with
\* success = True after the order-update of the first row.
C13_Witness ==
    /\ LoadedSnapshot(last)
    /\ Len(last.resp.success) = 2
    /\ last.resp.success[2].status \notin Recognised
    /\ Len(callbacks) = 3
    /\ callbacks[1].cb = "order_update"
    /\ callbacks[3] = [cb |-> "init", success |-> TRUE]

\* The listen-key acquisition has not delivered a key yet, or has failed.
Uninitialized == session.pc \in {"scheduled", "awaiting"}

SessionFailed == session.pc = "returned"

\* The last step was the end of _init_websocket on a failed acquisition.
AcquisitionFailed(l) == l.op = "_init_websocket" /\ l.resp.error # None

\* The steps of the stream: connected_callback and process.
StreamOps == {"connected_callback.await", "connected_callback", "process"}

\* The steps of the listen-key acquisition.
AcquireOps == {"_init_websocket.await", "_init_websocket"}

\* The steps of the two periodic actions.
RenewalOps == {"_reset_listen_key.return", "_reset_listen_key.await", "_reset_listen_key"}

HeartbeatOps == {"_send_heartbeat_msg"}

\* C14: when the listen-key acquisition fails, the step dispatches one error
\* notification and then one initialization notification with success =
\* False, opens no stream and sets no listen key; from then on the session
\* stays failed, the listen key stays unset, no stream exists, and neither
\* connected_callback, nor process, nor the acquisition runs again.
C14_AcquisitionFailureHalts ==
    [][ /\ AcquisitionFailed(last') =>
              /\ Len(callbacks') = 2
              /\ callbacks'[1].cb = "error"
              /\ callbacks'[2] = [cb |-> "init", success |-> FALSE]
              /\ session'.pc = "returned"
        /\ SessionFailed =>
              /\ session'.pc = "returned"
              /\ session'.listen_key = "None"
              /\ session'.ws = FALSE
              /\ last'.op \notin StreamOps \cup AcquireOps ]_vars

\* C14's case: the acquisition failed, and a renewal tick ran afterwards in
\* the failed session.
C14_Witness ==
    /\ SessionFailed
    /\ last.op = "_reset_listen_key.return"
    /\ session.listen_key = "None"
    /\ ~session.ws

\* C15 (as claimed): no renewal tick and no heartbeat tick runs while the
\* listen key has not been acquired yet or after its acquisition has failed.
C15_TicksAfterAcquisition ==
    last.op \in RenewalOps \cup HeartbeatOps => ~(Uninitialized \/ SessionFailed)

\* C16 (as claimed): no step ends in a fault; a heartbeat tick without a
\* stream object does not fault.
C16_NoFault ==
    last.op \in HeartbeatOps => last.fault = "None"

\* The last step was the end of a renewal whose put_listen_key failed.
RenewalFailed(l) == l.op = "_reset_listen_key" /\ l.resp.error # None

\* C17: a renewal whose put_listen_key fails leaves the listen key, the
\* stream, the position of the session and the live mapping as they were, and
\* leaves the session where the next renewal tick renews again, the next
\* heartbeat finds the stream, and connected_callback and process can run.
C17_FailedRenewalKeepsSession ==
    [][ RenewalFailed(last') =>
          /\ session'.listen_key = session.listen_key
          /\ session'.listen_key # "None"
          /\ session'.ws = session.ws
          /\ session'.ws
          /\ session'.pc = session.pc
          /\ session'.renewal = "idle"
          /\ orders' = orders
          /\ conn' = conn
          /\ callbacks' = <<>> ]_vars

\* C17's case: a renewal failed while the mapping held an order.
C17_Witness ==
    /\ RenewalFailed(last)
    /\ DOMAIN orders # {}
    /\ session.pc = "opened"

\* C18 (as claimed): the end of a renewal whose put_listen_key failed writes
\* an error log or dispatches an error notification, and never logs a success.
C18_RenewalFailureReported ==
    RenewalFailed(last) =>
        /\ last.log.level = "error" \/ Notices(callbacks, "error") # {}
        /\ last.log.text # "reset listen key success!"

\* C19: the listen key is written at most once: a step that changes it is the
\* end of _init_websocket and finds it unset, and a listen key that is set
\* never changes; the acquisition call is issued only by the one scheduled
\* run of _init_websocket, which is never scheduled again.
C19_ListenKeyWrittenOnce ==
    [][ /\ session'.listen_key # session.listen_key =>
              /\ session.listen_key = "None"
              /\ last'.op = "_init_websocket"
        /\ last'.op = "_init_websocket.await" => session.pc = "scheduled"
        /\ session.pc # "scheduled" => session'.pc # "scheduled" ]_vars

\* C19's case: renewals, one of them refused, and a heartbeat have run under
\* the second listen key, which is still the one of the session.
C19_Witness ==
    /\ session.listen_key = "listenKey2"
    /\ last.op = "_reset_listen_key"
    /\ last.resp.error = "rejected"
    /\ DOMAIN orders # {}

\* The last step issued an authenticated REST call.
IssuedAuthenticated(l) ==
    /\ l.op \in {"connected_callback.await", "revoke_order.call",
                 "revoke_order.fetched", "revoke_order.cancelled",
                 "create_order.call", "get_open_order_ids.call"}
    /\ l.request.auth

\* C20 (as claimed): every authenticated REST call of the instance is signed
\* with the instance's secret_key, carries the instance's access_key in
\* X-MBX-APIKEY, and goes to the instance's host.
C20_CallsUseInstanceCredentials ==
    IssuedAuthenticated(last) =>
        /\ last.request.signed_with = "SECRET-KEY"
        /\ last.request.apikey = "ACCESS-KEY"
        /\ last.request.base = "https://api.binance.com"

\* The place of a status in the life of an order.
Rank(status) ==
    CASE status = "SUBMITTED" -> 1
      [] status = "PARTIAL_FILLED" -> 2
      [] status \in {"FILLED", "CANCELED", "FAILED"} -> 3
      [] OTHER -> 0

\* C27 (as claimed): the status of an order held in the live mapping never
\* moves backwards from one step to the next.
C27_StatusMonotonic ==
    [][ \A k \in DOMAIN orders \cap DOMAIN orders' :
            Rank(orders'[k].status) >= Rank(orders[k].status) ]_vars

\* C28: a step of process dispatches exactly one order-update notification
\* when the report is for the configured symbol and has a recognised status,
\* carrying the mapped status and remain = q - z, and none otherwise; a
\* loaded snapshot dispatches exactly one order-update per row with a
\* recognised status, in row order, carrying the mapped status and remain =
\* origQty - executedQty of that row, and none for a skipped row.
C28_OneUpdatePerAcceptedInput ==
    /\ last.op = "process" =>
          LET updates == NoticeSeq(callbacks, "order_update")
          IN  IF AppliedReport(last)
              THEN /\ Len(updates) = 1
                   /\ updates[1].order.order_id = ToString(last.msg.i)
                   /\ updates[1].order.status = Normalized(last.msg.X)
                   /\ updates[1].order.remain = last.msg.q - last.msg.z
              ELSE updates = <<>>
    /\ LoadedSnapshot(last) =>
          LET kept == KeptSeq(last.resp.success)
              updates == NoticeSeq(callbacks, "order_update")
          IN  /\ Len(updates) = Len(kept)
              /\ \A n \in 1..Len(kept) :
                     /\ updates[n].order.order_id = ToString(kept[n].orderId)
                     /\ updates[n].order.status = Normalized(kept[n].status)
                     /\ updates[n].order.remain = kept[n].origQty - kept[n].executedQty

\* C28's case: a snapshot of a partly executed row and a skipped row gave one
\* order-update, with remain 0 of 1.
C28_Witness ==
    /\ LoadedSnapshot(last)
    /\ Len(last.resp.success) = 2
    /\ last.resp.success[1].status = "PARTIALLY_FILLED"
    /\ last.resp.success[1].executedQty = 1
    /\ last.resp.success[2].status = "PENDING_CANCEL"
    /\ Len(NoticeSeq(callbacks, "order_update")) = 1
    /\ NoticeSeq(callbacks, "order_update")[1].order.remain = 0

C30_KeyedByOwnId ==
    \A k \in DOMAIN orders :
        /\ orders[k].order_id = k
        /\ \E i \in 1..MaxOrderId : k = ToString(i)
        /\ orders[k].symbol = <<"BTC", "/", "USDT">>

\* C30's case: the mapping holds one order a snapshot row created and one
\* that the first report for its id created.
C30_Witness ==
    /\ last.op = "process"
    /\ last.msg.e = "executionReport"
    /\ ~last.known
    /\ ToString(last.msg.i) \in DOMAIN orders
    /\ Cardinality(DOMAIN orders) = 2

\* C26 (as claimed): an order id that process has removed from the live
\* mapping at a terminal status is never in the mapping again.
C26_NeverReappears ==
    evicted \cap DOMAIN orders = {}

\* C24: the order an order-update callback receives is a copy. A write of the
\* recipient into the order it received changes nothing in the live mapping,
\* and a step of process or of connected_callback changes nothing in the
\* order the recipient holds.
C24_CallbackGetsCopy ==
    [][ /\ last'.op = "recipient.write" => orders' = orders
        /\ (held.has /\ last'.op \in {"process", "connected_callback"}) =>
               held' = held ]_vars

\* C24's case: the recipient wrote into the order it had received for id 1,
\* then a report for id 1 was applied; the mapping holds the order as the
\* report left it and the recipient holds it as it wrote it.
C24_Witness ==
    /\ held.has
    /\ held.order.order_id = "1"
    /\ held.order.status = "tampered"
    /\ AppliedReport(last)
    /\ last.known
    /\ last.msg.X = "PARTIALLY_FILLED"
    /\ "1" \in DOMAIN orders
    /\ orders["1"].status = "PARTIAL_FILLED"

\* The keys of a dict, in the order of its items.
Keys(d) == [n \in 1..Len(d) |-> d[n][1]]

\* The value a dict holds under a key.
ValueOf(d, k) == d[CHOOSE n \in 1..Len(d) : d[n][1] = k][2]

\* The merged parameters: the keys of the params in their order, then the
\* keys that only the body has in their order, each with the value of the
\* body when the body has the key.
Merged(params, body) ==
    LET fresh == SelectSeq(body, LAMBDA item : ~(\E n \in 1..Len(params) : params[n][1] = item[1]))
        keys == Keys(params) \o Keys(fresh)
    IN  [n \in 1..Len(keys) |->
            <<keys[n], IF \E j \in 1..Len(body) : body[j][1] = keys[n]
                       THEN ValueOf(body, keys[n])
                       ELSE ValueOf(params, keys[n])>>]

\* C21: the query of a request lists the merged parameters in insertion
\* order; a request with auth = True and at least one parameter is signed,
\* and the signature is computed over exactly the query that precedes it in
\* the URL; a request with auth = False or without parameters is not signed.
C21_SignatureOverQuery ==
    last.op = "request" =>
        LET merged == Merged(last.params, last.body)
        IN  /\ last.request.query = merged
            /\ last.request.signed = (last.auth /\ merged # <<>>)
            /\ last.request.signed => last.request.signed_text = last.request.query

\* C21's case: an authenticated request whose body has a key of the params
\* and a key of its own: the value is replaced in place and the new key is last.
C21_Witness ==
    /\ last.op = "request"
    /\ last.auth
    /\ last.params = << <<"timestamp", "1">>, <<"symbol", "1">> >>
    /\ last.body = << <<"symbol", "2">>, <<"timestamp", "2">> >>
    /\ last.request.signed
    /\ last.request.signed_text = << <<"timestamp", "2">>, <<"symbol", "2">> >>

\* The steps of create_order, revoke_order and get_open_order_ids.
RestOps ==
    {"create_order.call", "create_order", "revoke_order.call", "revoke_order.fetched",
     "revoke_order.cancelled", "get_open_order_ids.call", "get_open_order_ids"}

\* C22: no step of create_order, of revoke_order or of get_open_order_ids
\* changes the live mapping, whatever the exchange answers; the mapping
\* changes only in steps of process and of connected_callback, so the order
\* create_order has created is in the mapping only once a report or a
\* snapshot row for its id was processed.
C22_RestLeavesMapping ==
    [][ /\ last'.op \in RestOps => orders' = orders
        /\ orders' # orders => last'.op \in {"process", "connected_callback"} ]_vars

\* C22's case: create_order returned the id of the order it created, and the
\* mapping, which holds nothing, has no entry for it.
C22_Witness ==
    /\ last.op = "create_order"
    /\ last.resp.error = "None"
    /\ call.ret = <<ToString(last.resp.success.orderId), "None">>
    /\ ToString(last.resp.success.orderId) \notin DOMAIN orders

\* C23 (as claimed): a call of create_order that supplies no client order id
\* does not fault and submits the order.
C23_ClientOrderIdOptional ==
    last.op = "create_order.call" =>
        /\ last.fault = "None"
        /\ call.pc = "create"

\* C25: when the transport has answered, create_order returns (order id,
\* None) on success and (None, error) on an error, get_open_order_ids returns
\* (list of order ids, None) on success and (None, error) on an error, and
\* the error outcome, and no other, has dispatched that error to the error
\* callback, once.
C25_ResultOrError ==
    /\ last.op = "create_order" =>
          IF last.resp.error = "None"
          THEN /\ call.ret = <<ToString(last.resp.success.orderId), "None">>
               /\ call.ret[1] # "None"
               /\ callbacks = <<>>
          ELSE /\ call.ret = <<"None", last.resp.error>>
               /\ callbacks = <<[cb |-> "error", error |-> last.resp.error]>>
    /\ last.op = "get_open_order_ids" =>
          IF last.resp.error = "None"
          THEN /\ call.ret = <<[n \in 1..Len(last.resp.success) |->
                                   ToString(last.resp.success[n].orderId)], "None">>
               /\ callbacks = <<>>
          ELSE /\ call.ret = <<"None", last.resp.error>>
               /\ callbacks = <<[cb |-> "error", error |-> last.resp.error]>>

\* C25's case: get_open_order_ids on a failed fetch.
C25_Witness ==
    /\ last.op = "get_open_order_ids"
    /\ last.resp.error = "timeout"
    /\ call.pc = "listed"
    /\ Len(callbacks) = 1

\* The constructor found account or strategy empty.
EmptyArgument == session.account = "" \/ session.strategy = ""

\* C31 (as claimed): an instance whose constructor found a required argument
\* empty never starts its session: the listen-key acquisition stays where
\* the constructor left it, no renewal tick and no heartbeat tick runs, and
\* no initialization notification with success = True is dispatched.
C31_EmptyArgumentStops ==
    EmptyArgument =>
        /\ session.pc = "scheduled"
        /\ last.op \notin AcquireOps \cup RenewalOps \cup HeartbeatOps
        /\ \A n \in Notices(callbacks, "init") : ~callbacks[n].success

====
